---- MODULE Spec2Model ----
(***************************************************************************)
(* Model of slurm_plugin/resume.py: the Slurm ResumeProgram of             *)
(* aws-parallelcluster-node.  One run of main() is a walk of pc through    *)
(* the external calls main() makes: reading the configuration file,        *)
(* configuring logging, get_nodes_info, InstanceLauncher, and              *)
(* set_nodes_down_and_power_save.  Every external call either returns or   *)
(* raises an Exception; which one is the environment's choice.             *)
(***************************************************************************)
EXTENDS Integers, Sequences, FiniteSets, TLC

\* Node names are node-1 .. node-NumNodes, written 1 .. NumNodes.
NumNodes == 3

Nodes == 1..NumNodes

Range(s) == {s[i] : i \in DOMAIN s}

(***************************************************************************)
(* args.nodes: the compact node expression "node-[lo-hi]" Slurm passes on  *)
(* the command line.  It denotes one or more node names.                   *)
(***************************************************************************)
Requests == {r \in [lo : Nodes, hi : Nodes] : r.lo <= r.hi}

NoRequest == [lo |-> 0, hi |-> 0]

\* The node names a node expression denotes (Slurm's hostlist expansion).
Denote(expr) == {n \in Nodes : expr.lo <= n /\ n <= expr.hi}

(***************************************************************************)
(* The configuration file, section [slurm_resume].  A key is Absent or     *)
(* holds the string written in the file.                                   *)
(***************************************************************************)
Absent == "<absent>"

Unreadable == [readable |-> FALSE, region |-> Absent, cluster_name |-> Absent, max_batch_size |-> Absent, update_node_address |-> Absent, proxy |-> Absent, logging_config |-> Absent, max_retry |-> Absent]

ConfigFiles ==
    {Unreadable} \cup
    [readable : {TRUE},
     region : {Absent, "us-east-1"},
     cluster_name : {Absent, "hit"},
     max_batch_size : {Absent, "25", "abc"},
     update_node_address : {Absent, "false", "yes", "maybe"},
     proxy : {Absent, "NONE", "none", "https://proxy:8080"},
     logging_config : {Absent, "/etc/resume_logging.conf"},
     max_retry : {Absent, "3"}]

\* SlurmResumeConfig.DEFAULTS
DEFAULTS ==
    [max_retry |-> 5,
     max_batch_size |-> 100,
     update_node_address |-> TRUE,
     proxy |-> "NONE",
     logging_config |-> "logging/parallelcluster_resume_logging.conf"]

\* ConfigParser.getint: int() of the string; anything else raises ValueError.
IntLiterals == {"25", "3"}

getint_raises(v) == v # Absent /\ v \notin IntLiterals

getint(v, fallback) ==
    IF v = Absent THEN fallback
    ELSE CASE v = "25" -> 25
           [] v = "3" -> 3
           [] OTHER -> 0

\* Mutant of getboolean: bool() of the string, true of every non-empty one.
getboolean_Truthy(v, fallback) ==
    IF v = Absent THEN fallback ELSE TRUE

\* ConfigParser.getboolean: BOOLEAN_STATES of the lower-cased string; anything
\* else raises ValueError.
TrueLiterals == {"1", "yes", "true", "on"}

FalseLiterals == {"0", "no", "false", "off"}

getboolean_raises(v) == v # Absent /\ v \notin (TrueLiterals \cup FalseLiterals)

getboolean(v, fallback) ==
    IF v = Absent THEN fallback ELSE v \in TrueLiterals

\* ConfigParser.get with a fallback.
get(v, fallback) == IF v = Absent THEN fallback ELSE v

\* The state of resume_config before SlurmResumeConfig(...) has returned.
NoConfig ==
    [loaded |-> FALSE, region |-> Absent, cluster_name |-> Absent, max_batch_size |-> 0,
     update_node_address |-> FALSE,
     boto3_config |-> [retries |-> [max_attempts |-> 0, mode |-> ""], proxies |-> {}],
     logging_config |-> Absent]

\* Mutant of ConfigRaises: cluster_name read with a fallback, so that its
\* absence no longer raises.
ConfigRaises_ClusterOptional(f) ==
    \/ ~f.readable
    \/ f.region = Absent
    \/ getint_raises(f.max_batch_size)
    \/ getboolean_raises(f.update_node_address)

\* SlurmResumeConfig._get_config raises: IOError from open/read_file,
\* NoOptionError/NoSectionError from get of a required key, ValueError from
\* getint/getboolean.
ConfigRaises(f) ==
    \/ ~f.readable
    \/ f.region = Absent
    \/ f.cluster_name = Absent
    \/ getint_raises(f.max_batch_size)
    \/ getboolean_raises(f.update_node_address)

\* Mutant of Proxies: the proxy entry is set whatever the value.
Proxies_Always(proxy) == {[scheme |-> "https", url |-> proxy]}

\* The proxies entry of the botocore Config: set only when proxy != "NONE".
Proxies(proxy) ==
    IF proxy # "NONE" THEN {[scheme |-> "https", url |-> proxy]} ELSE {}

\* Mutant of GetConfig: max_retry is read from the file like the other keys.
GetConfig_ReadsMaxRetry(f) ==
    [loaded |-> TRUE,
     region |-> f.region,
     cluster_name |-> f.cluster_name,
     max_batch_size |-> getint(f.max_batch_size, DEFAULTS.max_batch_size),
     update_node_address |-> getboolean(f.update_node_address, DEFAULTS.update_node_address),
     boto3_config |->
        [retries |-> [max_attempts |-> getint(f.max_retry, DEFAULTS.max_retry), mode |-> "standard"],
         proxies |-> Proxies(get(f.proxy, DEFAULTS.proxy))],
     logging_config |-> get(f.logging_config, DEFAULTS.logging_config)]

\* SlurmResumeConfig._get_config, when it does not raise.
GetConfig(f) ==
    [loaded |-> TRUE,
     region |-> f.region,
     cluster_name |-> f.cluster_name,
     max_batch_size |-> getint(f.max_batch_size, DEFAULTS.max_batch_size),
     update_node_address |-> getboolean(f.update_node_address, DEFAULTS.update_node_address),
     boto3_config |->
        [retries |-> [max_attempts |-> DEFAULTS.max_retry, mode |-> "standard"],
         proxies |-> Proxies(get(f.proxy, DEFAULTS.proxy))],
     logging_config |-> get(f.logging_config, DEFAULTS.logging_config)]

(***************************************************************************)
(* External collaborators, by their interface.                             *)
(***************************************************************************)
Perms(S) ==
    {s \in [1..Cardinality(S) -> S] : \A i, j \in 1..Cardinality(S) : s[i] = s[j] => i = j}

\* get_nodes_info(arg_nodes), when it returns: the fully expanded node
\* names of the expression, in the scheduler's order.
ResolverResults(expr) == Perms(Denote(expr))

\* InstanceLauncher.failed_nodes after add_instances_for_nodes returned: the
\* names of node_list for which no instance was launched.
EngineResults(nodes) == SUBSET Range(nodes)

\* InstanceLauncher.failed_nodes when the launcher is not held to its
\* contract: _add_instances returns the attribute as it is, so it may hold
\* any names, those of node_list or others.
UncheckedEngineResults(nodes) == SUBSET Nodes

\* One external call: the operation, its argument and whether it raised.
\* The argument is a node expression (kind "expr", in expr), a list of names
\* (kind "list", in list) or a collection of names (kind "nodes", in nodes).
Call(op, kind, expr, list, nodes, raised) ==
    [op |-> op, kind |-> kind, expr |-> expr, list |-> list, nodes |-> nodes, raised |-> raised]

\* The nodes an argument of set_nodes_down_and_power_save names.
NodesOf(c) == IF c.kind = "expr" THEN Denote(c.expr) ELSE c.nodes

NoLauncher ==
    [node_list |-> <<>>, region |-> Absent, cluster_name |-> Absent,
     boto3_config |-> NoConfig.boto3_config, max_batch_size |-> 0,
     update_node_address |-> FALSE]

(***************************************************************************)
(* The control flow of main(), _resume() and _handle_failed_nodes().       *)
(***************************************************************************)
\* Mutants of TryHandler: the handler of line 145 only logs; main() has no
\* try/except at all.
TryHandler_LogOnly == "main_return"

TryHandler_NoCatch == "uncaught"

\* main, lines 126 and 145: where an exception raised inside the try block
\* goes.
TryHandler == "main_except"

\* Mutant of Propagates: _handle_failed_nodes without its try/except.
Propagates_NoCatch(raised) == raised

\* _handle_failed_nodes, lines 87-91: whether an exception of
\* set_nodes_down_and_power_save leaves _handle_failed_nodes.
Propagates(raised) == FALSE

\* Mutant of SuccessNodes: the filter of line 115 dropped.
SuccessNodes_All(nodes, failed) == nodes

\* _resume, line 115: the nodes of node_list that are not in failed_nodes.
SuccessNodes(nodes, failed) == SelectSeq(nodes, LAMBDA n : n \notin failed)

\* Mutants of NeedsFallback: the test of line 117 dropped; the test wrong for
\* a single failed node.
NeedsFallback_Always(failed) == TRUE

NeedsFallback_Several(failed) == Cardinality(failed) > 1

\* _resume, line 117: if failed_nodes
NeedsFallback(failed) == failed # {}

\* Mutant of ResumeFallbackCall: the whole node_list is passed.
ResumeFallbackCall_All(nodes, failed, raised) ==
    Call("set_nodes_down_and_power_save", "nodes", NoRequest, <<>>, Range(nodes), raised)

\* _resume, line 119: the call _handle_failed_nodes(failed_nodes) makes.
ResumeFallbackCall(nodes, failed, raised) ==
    Call("set_nodes_down_and_power_save", "nodes", NoRequest, <<>>, failed, raised)

\* Mutant of MainFallbackCall: an empty node list is passed.
MainFallbackCall_Empty(expr, raised) ==
    Call("set_nodes_down_and_power_save", "nodes", NoRequest, <<>>, {}, raised)

\* main, line 147: the call _handle_failed_nodes(args.nodes) makes.
MainFallbackCall(expr, raised) ==
    Call("set_nodes_down_and_power_save", "expr", expr, <<>>, {}, raised)

\* Mutant of InstanceLauncher: the launcher is built with the default batch
\* size instead of the configured one.
InstanceLauncher_DefaultBatch(nodes, cfg) ==
    [node_list |-> nodes, region |-> cfg.region, cluster_name |-> cfg.cluster_name,
     boto3_config |-> cfg.boto3_config, max_batch_size |-> DEFAULTS.max_batch_size,
     update_node_address |-> cfg.update_node_address]

\* _add_instances, lines 96-103: the InstanceLauncher constructed.
InstanceLauncher(nodes, cfg) ==
    [node_list |-> nodes, region |-> cfg.region, cluster_name |-> cfg.cluster_name,
     boto3_config |-> cfg.boto3_config, max_batch_size |-> cfg.max_batch_size,
     update_node_address |-> cfg.update_node_address]

\* Mutant of ExitStatus: main() ends with sys.exit(1) when nodes failed.
ExitStatus_FailedNodes(at, failed) == IF at = "uncaught" \/ failed # {} THEN 1 ELSE 0

\* lines 150-151: the interpreter exits 0 when main() returns and 1 when an
\* exception leaves it; main() passes it nothing about failed_nodes.
ExitStatus(at, failed) == IF at = "uncaught" THEN 1 ELSE 0

VARIABLES
    pc,             \* where main() is
    arg_nodes,      \* args.nodes
    config_file,    \* parallelcluster_slurm_resume.conf
    resume_config,  \* the SlurmResumeConfig of main()
    log_dest,       \* how the root logger is configured
    node_list,      \* _resume: node_list
    failed_nodes,   \* _resume: failed_nodes
    success_nodes,  \* _resume: success_nodes
    launcher,       \* the arguments InstanceLauncher was constructed with
    calls,          \* the calls made to the scheduler and the cloud, in order
    exit_status     \* the exit status of the process, -1 while it runs

vars == <<pc, arg_nodes, config_file, resume_config, log_dest, node_list, failed_nodes, success_nodes, launcher, calls, exit_status>>

Init ==
    /\ pc = "load_config"
    /\ arg_nodes \in Requests
    /\ config_file \in ConfigFiles
    /\ resume_config = NoConfig
    /\ log_dest = "unconfigured"
    /\ node_list = <<>>
    /\ failed_nodes = {}
    /\ success_nodes = <<>>
    /\ launcher = NoLauncher
    /\ calls = <<>>
    /\ exit_status = -1

\* Mutant of LoadConfig: the load is retried until it succeeds.
LoadConfig_Retry ==
    /\ pc = "load_config"
    /\ IF ConfigRaises(config_file)
       THEN /\ pc' = "load_config"
            /\ UNCHANGED resume_config
       ELSE /\ pc' = "file_config"
            /\ resume_config' = GetConfig(config_file)
    /\ UNCHANGED <<arg_nodes, config_file, log_dest, node_list, failed_nodes, success_nodes, launcher, calls, exit_status>>

\* main, line 127: resume_config = SlurmResumeConfig(path)
LoadConfig ==
    /\ pc = "load_config"
    /\ IF ConfigRaises(config_file)
       THEN /\ pc' = TryHandler
            /\ UNCHANGED resume_config
       ELSE /\ pc' = "file_config"
            /\ resume_config' = GetConfig(config_file)
    /\ UNCHANGED <<arg_nodes, config_file, log_dest, node_list, failed_nodes, success_nodes, launcher, calls, exit_status>>

\* main, lines 128-131: fileConfig(resume_config.logging_config) returns or
\* raises into the handler of line 131.
FileConfig ==
    /\ pc = "file_config"
    /\ \E raises \in BOOLEAN :
        IF raises
        THEN /\ pc' = "basic_config"
             /\ UNCHANGED log_dest
        ELSE /\ pc' = "get_nodes_info"
             /\ log_dest' = "file_config"
    /\ UNCHANGED <<arg_nodes, config_file, resume_config, node_list, failed_nodes, success_nodes, launcher, calls, exit_status>>

\* Mutant of BasicConfig: the fallback also writes the default log file
\* into resume_config.logging_config.
BasicConfig_SetsLoggingConfig ==
    /\ pc = "basic_config"
    /\ \E raises \in BOOLEAN :
        IF raises
        THEN /\ pc' = TryHandler
             /\ log_dest' = "basic_config_failed"
        ELSE /\ pc' = "get_nodes_info"
             /\ log_dest' = "default_log_file"
    /\ resume_config' = [resume_config EXCEPT !.logging_config = "/var/log/parallelcluster/slurm_resume.log"]
    /\ UNCHANGED <<arg_nodes, config_file, node_list, failed_nodes, success_nodes, launcher, calls, exit_status>>

\* main, lines 132-143: logging.basicConfig(filename=default_log_file) opens
\* the default log file; when that raises, the exception leaves the handler
\* of line 131 and is caught at line 145.
BasicConfig ==
    /\ pc = "basic_config"
    /\ \E raises \in BOOLEAN :
        IF raises
        THEN /\ pc' = TryHandler
             /\ log_dest' = "basic_config_failed"
        ELSE /\ pc' = "get_nodes_info"
             /\ log_dest' = "default_log_file"
    /\ UNCHANGED <<arg_nodes, config_file, resume_config, node_list, failed_nodes, success_nodes, launcher, calls, exit_status>>

\* _resume, line 111: node_list = [node.name for node in get_nodes_info(arg_nodes)]
GetNodesInfo ==
    /\ pc = "get_nodes_info"
    /\ \E raises \in BOOLEAN, names \in ResolverResults(arg_nodes) :
        /\ calls' = Append(calls, Call("get_nodes_info", "expr", arg_nodes, <<>>, {}, raises))
        /\ IF raises
           THEN /\ pc' = TryHandler
                /\ UNCHANGED node_list
           ELSE /\ pc' = "add_instances"
                /\ node_list' = names
    /\ UNCHANGED <<arg_nodes, config_file, resume_config, log_dest, failed_nodes, success_nodes, launcher, exit_status>>

\* _resume, line 114, and _add_instances, lines 94-105, with the failure
\* collections the launcher may return.
AddInstancesWith(results) ==
    /\ pc = "add_instances"
    /\ launcher' = InstanceLauncher(node_list, resume_config)
    /\ \E raises \in BOOLEAN, failed \in results :
        /\ calls' = Append(calls, Call("add_instances_for_nodes", "list", NoRequest, node_list, {}, raises))
        /\ IF raises
           THEN /\ pc' = TryHandler
                /\ UNCHANGED failed_nodes
           ELSE /\ pc' = "partition"
                /\ failed_nodes' = failed
    /\ UNCHANGED <<arg_nodes, config_file, resume_config, log_dest, node_list, success_nodes, exit_status>>

\* The launcher keeps its contract: failed_nodes are names of node_list.
AddInstances == AddInstancesWith(EngineResults(node_list))

\* The launcher returns whatever names it holds.
AddInstancesUnchecked == AddInstancesWith(UncheckedEngineResults(node_list))

\* _resume, lines 115-118.
Partition ==
    /\ pc = "partition"
    /\ success_nodes' = SuccessNodes(node_list, failed_nodes)
    /\ pc' = IF NeedsFallback(failed_nodes) THEN "handle_failed" ELSE "main_return"
    /\ UNCHANGED <<arg_nodes, config_file, resume_config, log_dest, node_list, failed_nodes, launcher, calls, exit_status>>

\* _resume, line 119: _handle_failed_nodes(failed_nodes), lines 87-91.
ResumeHandleFailed ==
    /\ pc = "handle_failed"
    /\ \E raises \in BOOLEAN :
        /\ calls' = Append(calls, ResumeFallbackCall(node_list, failed_nodes, raises))
        /\ pc' = IF Propagates(raises) THEN TryHandler ELSE "main_return"
    /\ UNCHANGED <<arg_nodes, config_file, resume_config, log_dest, node_list, failed_nodes, success_nodes, launcher, exit_status>>

\* main, lines 145-147: _handle_failed_nodes(args.nodes), lines 87-91.
MainExcept ==
    /\ pc = "main_except"
    /\ \E raises \in BOOLEAN :
        /\ calls' = Append(calls, MainFallbackCall(arg_nodes, raises))
        /\ pc' = IF Propagates(raises) THEN "uncaught" ELSE "main_return"
    /\ UNCHANGED <<arg_nodes, config_file, resume_config, log_dest, node_list, failed_nodes, success_nodes, launcher, exit_status>>

\* lines 150-151: main() has returned, or an exception has left it.
ProcessExit ==
    /\ pc \in {"main_return", "uncaught"}
    /\ exit_status' = ExitStatus(pc, failed_nodes)
    /\ pc' = "exited"
    /\ UNCHANGED <<arg_nodes, config_file, resume_config, log_dest, node_list, failed_nodes, success_nodes, launcher, calls>>

Next ==
    \/ LoadConfig
    \/ FileConfig
    \/ BasicConfig
    \/ GetNodesInfo
    \/ AddInstances
    \/ Partition
    \/ ResumeHandleFailed
    \/ MainExcept
    \/ ProcessExit

Spec == Init /\ [][Next]_vars

\* The process is a single thread that keeps running: a step that can be
\* taken is taken.
FairSpec == Spec /\ WF_vars(Next)

\* The same run with a launcher that is not held to its contract.
NextUnchecked ==
    \/ LoadConfig
    \/ FileConfig
    \/ BasicConfig
    \/ GetNodesInfo
    \/ AddInstancesUnchecked
    \/ Partition
    \/ ResumeHandleFailed
    \/ MainExcept
    \/ ProcessExit

SpecUnchecked == Init /\ [][NextUnchecked]_vars

(***************************************************************************)
(* What a run did, read off its calls.                                     *)
(***************************************************************************)
Exited == pc = "exited"

CallsOf(op) == SelectSeq(calls, LAMBDA c : c.op = op)

\* The reconciliation attempts: the calls of set_nodes_down_and_power_save.
Reconciles == CallsOf("set_nodes_down_and_power_save")

ResolverCalls == CallsOf("get_nodes_info")

EngineCalls == CallsOf("add_instances_for_nodes")

ResolverRaised == \E i \in DOMAIN ResolverCalls : ResolverCalls[i].raised

EngineReturned == \E i \in DOMAIN EngineCalls : ~EngineCalls[i].raised

EngineRaised == \E i \in DOMAIN EngineCalls : EngineCalls[i].raised

\* The engine reported n as launched; some reconciliation attempt names n.
Launched(n) == EngineReturned /\ n \in Range(node_list) /\ n \notin failed_nodes

Covered(n) == \E i \in DOMAIN Reconciles : n \in NodesOf(Reconciles[i])

(***************************************************************************)
(* C1: when the engine returns a non-empty failure set F that is a subset  *)
(* of the resolved list L, the run calls set_nodes_down_and_power_save     *)
(* exactly once, and its argument is exactly F.                            *)
(***************************************************************************)
C1_FallbackOnceWithFailedSet ==
    (Exited /\ EngineReturned /\ failed_nodes # {} /\ failed_nodes \subseteq Range(node_list))
        => /\ Len(Reconciles) = 1
           /\ Reconciles[1].kind = "nodes"
           /\ Reconciles[1].nodes = failed_nodes

C1_Witness ==
    /\ Exited /\ EngineReturned
    /\ failed_nodes # {} /\ failed_nodes # Range(node_list)
    /\ Len(Reconciles) = 1 /\ Reconciles[1].nodes = failed_nodes

(***************************************************************************)
(* C2: a run in which the engine raises names, in its one reconciliation   *)
(* call, the same nodes as the run in which the engine returns the whole   *)
(* list L as failed: exactly one call, naming exactly the nodes of L.      *)
(***************************************************************************)
C2_EngineRaiseAsAllFailed ==
    (Exited /\ (EngineRaised \/ (EngineReturned /\ failed_nodes = Range(node_list))))
        => /\ Len(Reconciles) = 1
           /\ NodesOf(Reconciles[1]) = Range(node_list)

C2_Witness ==
    /\ Exited /\ EngineRaised /\ Len(node_list) >= 2
    /\ Len(Reconciles) = 1 /\ Reconciles[1].kind = "expr"

(***************************************************************************)
(* C3: when get_nodes_info raises, the engine is never invoked, and the    *)
(* run reconciles once with the raw request string args.nodes.             *)
(***************************************************************************)
C3_ResolverRaiseUsesRawRequest ==
    ResolverRaised
        => /\ EngineCalls = <<>>
           /\ launcher = NoLauncher
           /\ Exited => /\ Len(Reconciles) = 1
                        /\ Reconciles[1].kind = "expr"
                        /\ Reconciles[1].expr = arg_nodes

C3_Witness ==
    Exited /\ ResolverRaised /\ Len(Reconciles) = 1 /\ Reconciles[1].expr = arg_nodes

C6_NoNodeInLimbo ==
    Exited => \A n \in Denote(arg_nodes) : Launched(n) \/ Covered(n)

C6_Witness ==
    /\ Exited
    /\ \E n \in Denote(arg_nodes) : Launched(n) /\ ~Covered(n)
    /\ \E n \in Denote(arg_nodes) : Covered(n) /\ ~Launched(n)

(***************************************************************************)
(* C7: once set_nodes_down_and_power_save has been called, raising or not, *)
(* _handle_failed_nodes returns normally: the run goes on to return from   *)
(* main(), makes no second attempt and exits 0.                            *)
(***************************************************************************)
C7_ReconcilerNeverRaises ==
    Reconciles # <<>>
        => /\ Len(Reconciles) = 1
           /\ pc \in {"main_return", "exited"}
           /\ Exited => exit_status = 0

C7_Witness ==
    Exited /\ Len(Reconciles) = 1 /\ Reconciles[1].raised /\ exit_status = 0

(***************************************************************************)
(* C8: when the engine returns an empty failure set, the run never calls   *)
(* set_nodes_down_and_power_save and exits 0.                              *)
(***************************************************************************)
C8_AllLaunchedNoFallback ==
    (EngineReturned /\ failed_nodes = {})
        => /\ Reconciles = <<>>
           /\ Exited => exit_status = 0

C8_Witness ==
    /\ Exited /\ EngineReturned /\ failed_nodes = {}
    /\ Len(node_list) >= 2 /\ Len(success_nodes) = Len(node_list)

(***************************************************************************)
(* C9: every run in which the engine returned exits with status 0,         *)
(* whether the failure set it returned is empty or not.                    *)
(***************************************************************************)
C9_ExitIndependentOfNodeFailures ==
    (Exited /\ EngineReturned) => exit_status = 0

C9_Witness ==
    Exited /\ EngineReturned /\ failed_nodes # {} /\ exit_status = 0

(***************************************************************************)
(* C10: whenever the configuration was loaded and fileConfig raised, the   *)
(* run logs to the default destination and _resume is invoked: the         *)
(* resolver is called with args.nodes.                                     *)
(***************************************************************************)
C10_LoggingFailureNeverBlocks ==
    (Exited /\ resume_config.loaded /\ log_dest # "file_config")
        => /\ log_dest = "default_log_file"
           /\ ResolverCalls # <<>>
           /\ ResolverCalls[1].expr = arg_nodes

(***************************************************************************)
(* Configuration loading, as the claims see it.                            *)
(***************************************************************************)
\* SlurmResumeConfig(...) has returned or raised.
LoadAttempted == pc # "load_config"

RequiredPresent ==
    config_file.readable /\ config_file.region # Absent /\ config_file.cluster_name # Absent

\* The optional typed keys that are present hold an integer / a boolean word.
OptionalWellFormed ==
    /\ config_file.max_batch_size \in {Absent, "25"}
    /\ config_file.update_node_address \in {Absent, "false", "yes"}

\* Omitted optional keys have the documented defaults, present ones the
\* value of the file.
DefaultsAndValues ==
    /\ resume_config.region = config_file.region
    /\ resume_config.cluster_name = config_file.cluster_name
    /\ config_file.max_batch_size = Absent => resume_config.max_batch_size = 100
    /\ config_file.max_batch_size = "25" => resume_config.max_batch_size = 25
    /\ config_file.update_node_address = Absent => resume_config.update_node_address = TRUE
    /\ config_file.update_node_address = "yes" => resume_config.update_node_address = TRUE
    /\ config_file.update_node_address = "false" => resume_config.update_node_address = FALSE
    /\ config_file.proxy = Absent => resume_config.boto3_config.proxies = {}
    /\ config_file.proxy = "https://proxy:8080"
        => resume_config.boto3_config.proxies = {[scheme |-> "https", url |-> "https://proxy:8080"]}

(***************************************************************************)
(* C11, as amended: for every configuration file in which region and       *)
(* cluster_name are present and the max_batch_size and                     *)
(* update_node_address values, when present, are an integer and a boolean  *)
(* word, load returns a config with the documented default for each        *)
(* omitted optional key and the file's value for each present one.         *)
(***************************************************************************)
C11_DefaultsForWellFormedFile ==
    (LoadAttempted /\ RequiredPresent /\ OptionalWellFormed)
        => resume_config.loaded /\ DefaultsAndValues

C11_Witness ==
    /\ LoadAttempted /\ resume_config.loaded
    /\ config_file.max_batch_size = Absent /\ config_file.update_node_address = "false"
    /\ config_file.proxy = Absent
    /\ resume_config.max_batch_size = 100 /\ ~resume_config.update_node_address

\* C11 as stated: every file with region and cluster_name present loads.
C11_Original ==
    (LoadAttempted /\ RequiredPresent) => resume_config.loaded /\ DefaultsAndValues

(***************************************************************************)
(* C12, as amended: the policy has no proxy entry exactly when the proxy   *)
(* key is omitted or is the upper-case literal "NONE"; every other value,  *)
(* the lower-case "none" included, is layered as the https proxy.          *)
(***************************************************************************)
C12_ProxyNoneIsUpperCase ==
    resume_config.loaded
        => IF config_file.proxy \in {Absent, "NONE"}
           THEN resume_config.boto3_config.proxies = {}
           ELSE resume_config.boto3_config.proxies = {[scheme |-> "https", url |-> config_file.proxy]}

C12_Witness ==
    /\ resume_config.loaded /\ config_file.proxy = "none"
    /\ resume_config.boto3_config.proxies = {[scheme |-> "https", url |-> "none"]}

\* C12 as stated: the literal "none" or an omitted key gives no proxy entry,
\* and only a URL gives one.
C12_Original ==
    resume_config.loaded
        => /\ config_file.proxy \in {Absent, "none"} => resume_config.boto3_config.proxies = {}
           /\ resume_config.boto3_config.proxies # {} => config_file.proxy = "https://proxy:8080"

(***************************************************************************)
(* C13: when the file is unreadable, or region is missing, or cluster_name *)
(* is missing, loading raises: no config object exists, the run never      *)
(* gets past the load, and neither resolver nor engine is invoked.         *)
(***************************************************************************)
C13_MissingRequiredKeyFailsLoad ==
    (LoadAttempted /\ ~RequiredPresent)
        => /\ ~resume_config.loaded
           /\ resume_config = NoConfig
           /\ pc \in {"main_except", "main_return", "exited"}
           /\ ResolverCalls = <<>>
           /\ EngineCalls = <<>>
           /\ launcher = NoLauncher

C13_Witness ==
    /\ Exited /\ config_file.readable /\ config_file.region # Absent
    /\ config_file.cluster_name = Absent /\ ~resume_config.loaded

(***************************************************************************)
(* The partition _resume computes: succeeded is success_nodes, failed is   *)
(* the collection handed to the reconciler (failed_nodes).                 *)
(***************************************************************************)
Partitioned == EngineReturned /\ pc # "partition"

Succeeded == Range(success_nodes)

(***************************************************************************)
(* C14, as amended: succeeded and failed are disjoint and succeeded is     *)
(* L minus F, for every F; succeeded and failed together are L when F      *)
(* holds only names of L, and L plus the foreign names of F otherwise.     *)
(* The reconciler is handed F as returned.                                 *)
(***************************************************************************)
C14_PartitionOfReturnedSet ==
    Partitioned
        => /\ Succeeded \cap failed_nodes = {}
           /\ Succeeded = Range(node_list) \ failed_nodes
           /\ Succeeded \cup failed_nodes = Range(node_list) \cup failed_nodes
           /\ failed_nodes \subseteq Range(node_list)
                => Succeeded \cup failed_nodes = Range(node_list)
           /\ Reconciles # <<>> => Reconciles[1].nodes = failed_nodes

C14_Witness ==
    /\ Exited /\ Partitioned
    /\ ~(failed_nodes \subseteq Range(node_list))
    /\ Succeeded # {} /\ Succeeded # Range(node_list)
    /\ Reconciles # <<>> /\ Reconciles[1].nodes = failed_nodes

\* C14 as stated: succeeded and failed are disjoint and together are L,
\* also when F holds names that are not in L.
C14_Original ==
    Partitioned
        => /\ Succeeded \cap failed_nodes = {}
           /\ Succeeded \cup failed_nodes = Range(node_list)

(***************************************************************************)
(* C15: every run reaches the end of main() and exits, and on the way      *)
(* makes at most three external calls, the resolver and the engine at      *)
(* most once each: nothing is re-run.                                      *)
(***************************************************************************)
C15_Terminates ==
    /\ <>Exited
    /\ [](Len(calls) <= 3 /\ Len(ResolverCalls) <= 1 /\ Len(EngineCalls) <= 1)

C15_Witness ==
    /\ Exited /\ Len(calls) = 3
    /\ calls[3].op = "set_nodes_down_and_power_save" /\ calls[3].raised

(***************************************************************************)
(* C16: the resolver is called at most once and only with a loaded         *)
(* configuration; the engine is called at most once, right after the       *)
(* resolver returned, with the resolver's list in its order and the        *)
(* loaded region, cluster_name, policy, max_batch_size and                 *)
(* update_node_address; a reconciler call is the last call of the run and  *)
(* follows the engine's return or a raised exception.                      *)
(***************************************************************************)
IsReconcile(c) == c.op = "set_nodes_down_and_power_save"

C16_PhaseOrder ==
    /\ Len(ResolverCalls) <= 1
    /\ Len(EngineCalls) <= 1
    /\ ResolverCalls # <<>>
        => /\ resume_config.loaded
           /\ ~ConfigRaises(config_file)
           /\ calls[1].op = "get_nodes_info"
           /\ calls[1].expr = arg_nodes
    /\ EngineCalls # <<>>
        => /\ Len(calls) >= 2
           /\ calls[1].op = "get_nodes_info" /\ ~calls[1].raised
           /\ calls[2].op = "add_instances_for_nodes"
           /\ calls[2].list = node_list
           /\ launcher.node_list = node_list
           /\ launcher.region = resume_config.region
           /\ launcher.cluster_name = resume_config.cluster_name
           /\ launcher.boto3_config = resume_config.boto3_config
           /\ launcher.max_batch_size = resume_config.max_batch_size
           /\ launcher.update_node_address = resume_config.update_node_address
    /\ pc = "add_instances" => Reconciles = <<>>
    /\ \A i \in DOMAIN calls :
        IsReconcile(calls[i])
            => /\ i = Len(calls)
               /\ IF calls[i].kind = "nodes"
                  THEN i = 3 /\ calls[2].op = "add_instances_for_nodes" /\ ~calls[2].raised
                  ELSE IF i = 1
                       THEN ~resume_config.loaded \/ log_dest = "basic_config_failed"
                       ELSE calls[i - 1].raised

C16_Witness ==
    /\ Exited /\ Len(calls) = 3 /\ IsReconcile(calls[3])
    /\ Len(node_list) >= 2 /\ node_list[1] > node_list[2]
    /\ launcher.node_list = node_list
    /\ launcher.max_batch_size = 25

(***************************************************************************)
(* C17: set_nodes_down_and_power_save is called at most once in a run.     *)
(***************************************************************************)
C17_AtMostOneReconciliation == Len(Reconciles) <= 1

C17_Witness ==
    /\ Exited /\ Len(Reconciles) = 1
    /\ Reconciles[1].kind = "nodes" /\ Reconciles[1].raised
    /\ log_dest = "default_log_file"

(***************************************************************************)
(* C18: the retry policy of a loaded configuration is mode "standard"      *)
(* with 5 attempts, whatever the file holds, a max_retry key included,     *)
(* and that is the policy the launcher is given.                           *)
(***************************************************************************)
C18_RetryPolicyFixed ==
    /\ resume_config.loaded
        => resume_config.boto3_config.retries = [max_attempts |-> 5, mode |-> "standard"]
    /\ launcher # NoLauncher
        => launcher.boto3_config.retries = [max_attempts |-> 5, mode |-> "standard"]

C18_Witness ==
    /\ resume_config.loaded /\ config_file.max_retry = "3"
    /\ resume_config.boto3_config.retries.max_attempts = 5
    /\ launcher # NoLauncher

(***************************************************************************)
(* C19: once the configuration object is constructed, no step of the run   *)
(* changes any of its fields.                                              *)
(***************************************************************************)
C19_ConfigReadOnly == [][resume_config.loaded => resume_config' = resume_config]_vars

C19_Witness ==
    /\ Exited /\ resume_config.loaded /\ Len(calls) = 3
    /\ log_dest = "default_log_file"
    /\ resume_config.logging_config = "/etc/resume_logging.conf"
    /\ resume_config.max_batch_size = 25
====
